---- MODULE Spec2Model ----
(***************************************************************************)
(* The voice pipeline of nanobot: the capture callback, the controller     *)
(* loop of VoiceAssistantService._run_blocking, the recorder, the WAV      *)
(* encoder, the asynchronous utterance handler and the wake-word gate.     *)
(*                                                                         *)
(* Spec      one call of start(): callback, controller loop, handler, stop *)
(* SpecLive  Spec with a fair worker thread and a fair handler            *)
(* SpecRing  the pre-roll deque alone, fed with arbitrary frame sequences  *)
(* SpecGate  WakeWordDetector.detect alone, called at arbitrary times      *)
(* SpecRec   _record_utterance alone, on arbitrary queued streams          *)
(* SpecRecFair  SpecRec with a recorder that keeps being scheduled         *)
(* SpecE2E   the controller on the end-to-end scenario stream              *)
(* SpecNorm  _normalize_keyword alone, applied repeatedly                  *)
(* SpecLife  calls of start() and stop() interleaved, several loops        *)
(***************************************************************************)
EXTENDS Integers, Sequences, FiniteSets, TLC

VARIABLES
    cfg,            \* self.runtime_config (VoiceRuntimeConfig)
    wcfg,           \* self.wake_config (WakeWordConfig)
    running,        \* self._running
    speaking,       \* self._speaking
    q,              \* the frame queue of _run_blocking
    ring,           \* the pre-roll deque of _run_blocking
    last_trigger,   \* detector.last_trigger
    now,            \* the last value time.time() returned
    pc,             \* where the controller thread is
    frame,          \* the frame the controller took off the queue
    frames,         \* the frames list of _record_utterance
    silence_frames, \* the silence counter of _record_utterance
    utterance,      \* the utterance list of _run_blocking
    wav,            \* the container _write_wav wrote (NoWav when none)
    hpc,            \* where the coroutine _handle_utterance is
    herr,           \* whether the handler's future holds an exception
    captured,       \* number of frames the callback has delivered
    heard,          \* ids of the frames enqueued while speaking was set
    stalled,        \* whether the recorder's last q.get timed out
    pushed,         \* every frame appended to the ring so far, in order
    snap,           \* the last list(ring) taken
    calls,          \* the calls of detect so far: time, prediction, result
    hctx,           \* the locals of _handle_utterance and the calls it has made
    norm,           \* a keyword, and what _normalize_keyword made of it
    used,           \* ids of the frames of the utterances encoded so far
    lpc             \* where each call of start() is

vars == <<cfg, wcfg, running, speaking, q, ring, last_trigger, now, pc, frame,
          frames, silence_frames, utterance, wav, hpc, herr, captured, heard,
          stalled, pushed, snap, calls, hctx, norm, used, lpc>>

----------------------------------------------------------------------------
(* Bounds of the model *)

\* frames the callback delivers in one run of Spec
MaxCaptured == 4
\* time.time() at the start of a run and the latest time the model reads
Epoch == 3
MaxNow == 7
\* SpecRing: frames pushed
MaxPushed == 6
\* SpecGate: calls of detect
MaxCalls == 3
\* SpecRec: length of the queued stream
MaxStream == 5
\* SpecE2E: the silent frames before the wake word, the loud frames and the
\* silent frames after it
ScenLead == 50
ScenLoud == 10
ScenTail == 15
\* SpecNorm: length of the keywords normalised
MaxKeyLen == 3
\* SpecNorm: applications of _normalize_keyword to one keyword
MaxApplied == 2
\* SpecLife: calls of start()
MaxStarts == 3

----------------------------------------------------------------------------
(* Arithmetic helpers *)

Max(a, b) == IF a >= b THEN a ELSE b

Min(a, b) == IF a <= b THEN a ELSE b

\* Python's int(a / b) for b > 0: truncation toward zero
TruncDiv(a, b) == IF a >= 0 THEN a \div b ELSE -((-a) \div b)

----------------------------------------------------------------------------
(* Frames and predictions *)

\* A prediction of the acoustic model: a dict (its items in insertion order,
\* each a keyword and a score in hundredths) or something that is not a dict.
\* Keywords are sequences of one-character strings.
NotADict == [dict |-> FALSE, items |-> <<>>]

Dict(items) == [dict |-> TRUE, items |-> items]

\* A delivered block: its capture number, its RMS loudness, the prediction the
\* acoustic model gives for it, and its number of int16 samples.
Frame(id, rms, pred, n) == [id |-> id, rms |-> rms, pred |-> pred, n |-> n]

NoFrame == Frame(0, 0, NotADict, 0)

NoWav == [nchannels |-> 0, sampwidth |-> 0, framerate |-> 0, nbytes |-> 0]

Ids(s) == {s[i].id : i \in 1..Len(s)}

\* _handle_utterance before it has run: text, response and tts_path are not
\* bound yet, and it has called neither the agent, nor speak, nor _play_wav
NoHandler ==
    [text |-> "unset", response |-> "unset", tts_path |-> "unset", called |-> {}]

\* no keyword given to _normalize_keyword yet
NoKeyword == [input |-> <<>>, value |-> <<>>, applied |-> 0]

\* no call of start() made yet
NoLoops == [i \in 1..MaxStarts |-> "unused"]

----------------------------------------------------------------------------
(* wakeword.py *)

IsSpace(c) == c = " "

LowerChar(c) == CASE c = "H" -> "h" [] c = "N" -> "n" [] c = "X" -> "x" [] OTHER -> c

RECURSIVE LStrip(_)
LStrip(s) == IF s # <<>> /\ IsSpace(Head(s)) THEN LStrip(Tail(s)) ELSE s

RECURSIVE RStrip(_)
RStrip(s) ==
    IF s # <<>> /\ IsSpace(s[Len(s)]) THEN RStrip(SubSeq(s, 1, Len(s) - 1)) ELSE s

Strip(s) == RStrip(LStrip(s))

Lower(s) == [i \in 1..Len(s) |-> LowerChar(s[i])]

ReplaceUnderscore(s) == [i \in 1..Len(s) |-> IF s[i] = "_" THEN " " ELSE s[i]]

\* name.strip().lower().replace("_", " ")
NormalizeKeyword(name) == ReplaceUnderscore(Lower(Strip(name)))

\* predictions.get(key, 0.0)
Score(items, key) ==
    IF \E i \in 1..Len(items) : items[i].key = key
    THEN LET i == CHOOSE j \in 1..Len(items) : items[j].key = key IN items[i].score
    ELSE 0

\* TargetKeywords for a detector that compares every predicted key
TargetKeywordsAll(items, wake_word) == [i \in 1..Len(items) |-> items[i].key]

\* _target_keywords: the keys detect compares, in iteration order. The dict
\* comprehension keeps, for each normalized form, the last key having it.
TargetKeywords(items, wake_word) ==
    LET target == NormalizeKeyword(wake_word)
        hits == {i \in 1..Len(items) : NormalizeKeyword(items[i].key) = target}
    IN  IF items = <<>> THEN <<>>
        ELSE IF hits # {}
             THEN <<items[CHOOSE i \in hits : \A j \in hits : j <= i].key>>
             ELSE [i \in 1..Len(items) |-> items[i].key]

\* InCooldown with the comparison made inclusive
InCooldownInclusive(t, last, cooldown_s) == t - last <= cooldown_s

\* now - self.last_trigger < self.config.cooldown_s
InCooldown(t, last, cooldown_s) == t - last < cooldown_s

\* score >= self.config.threshold
Qualifies(score, threshold) == score >= threshold

\* Some key detect compares has a qualifying score
HasQualifyingScore(pred, w) ==
    /\ pred.dict
    /\ LET keys == TargetKeywords(pred.items, w.wake_word)
       IN  \E i \in 1..Len(keys) : Qualifies(Score(pred.items, keys[i]), w.threshold)

\* WakeWordDetector.detect at time t: what it returns and the last_trigger
\* it leaves
Detect(pred, t, last, w) ==
    IF ~pred.dict THEN [result |-> FALSE, last_trigger |-> last]
    ELSE IF InCooldown(t, last, w.cooldown_s)
         THEN [result |-> FALSE, last_trigger |-> last]
         ELSE IF HasQualifyingScore(pred, w)
              THEN [result |-> TRUE, last_trigger |-> t]
              ELSE [result |-> FALSE, last_trigger |-> last]

----------------------------------------------------------------------------
(* service.py: configuration arithmetic, ring, recorder rule, encoder *)

\* frame_samples = int(cfg.sample_rate * cfg.chunk_ms / 1000)
FrameSamples(c) == TruncDiv(c.sample_rate * c.chunk_ms, 1000)

\* pre_roll_frames = max(1, int(cfg.pre_roll_ms / cfg.chunk_ms))
PreRollFrames(c) == Max(1, TruncDiv(c.pre_roll_ms, c.chunk_ms))

\* max_frames = max(1, int(cfg.max_record_seconds * 1000 / cfg.chunk_ms))
MaxFrames(c) == Max(1, TruncDiv(c.max_record_seconds * 1000, c.chunk_ms))

\* min_frames = max(1, int(cfg.min_record_seconds * 1000 / cfg.chunk_ms))
MinFrames(c) == Max(1, TruncDiv(c.min_record_seconds * 1000, c.chunk_ms))

\* silence_limit = max(1, int(cfg.silence_ms / cfg.chunk_ms))
SilenceLimit(c) == Max(1, TruncDiv(c.silence_ms, c.chunk_ms))

\* RingAppend that refuses the new frame when the deque is full
RingAppendDropNewest(r, f, maxlen) == IF Len(r) >= maxlen THEN r ELSE Append(r, f)

\* deque(maxlen=...).append: the oldest element goes when the deque is full
RingAppend(r, f, maxlen) ==
    IF Len(r) >= maxlen THEN Append(Tail(r), f) ELSE Append(r, f)

\* list(ring): the contents, oldest first
Snapshot(r) == [i \in 1..Len(r) |-> r[i]]

\* _rms(frame)
Rms(f) == f.rms

\* rms < cfg.silence_threshold
IsSilent(f, c) == Rms(f) < c.silence_threshold

\* NextSilence for a counter that a loud frame does not reset
NextSilenceNoReset(s, f, c) == IF IsSilent(f, c) THEN s + 1 ELSE s

\* the silence counter after frame f
NextSilence(s, f, c) == IF IsSilent(f, c) THEN s + 1 ELSE 0

\* StopOnSilence with the silence comparison made strict
StopOnSilenceStrict(n, s, c) == n >= MinFrames(c) /\ s > SilenceLimit(c)

\* len(frames) >= min_frames and silence_frames >= silence_limit
StopOnSilence(n, s, c) == n >= MinFrames(c) /\ s >= SilenceLimit(c)

\* RangeExhausted for a loop that runs once too often
RangeExhaustedLate(n, c) == n > MaxFrames(c)

\* for _ in range(max_frames) is exhausted after the n-th frame
RangeExhausted(n, c) == n >= MaxFrames(c)

\* Compose with the recording put before the pre-roll
ComposeSwapped(snapshot, recorded) == recorded \o snapshot

\* utterance = list(ring); utterance.extend(recorded)
Compose(snapshot, recorded) == snapshot \o recorded

\* ToBytes for one byte a sample
ToBytesInt8(f) == f.n

\* frame.tobytes() of an int16 frame
ToBytes(f) == 2 * f.n

RECURSIVE SumBytes(_)
SumBytes(s) == IF s = <<>> THEN 0 ELSE ToBytes(Head(s)) + SumBytes(Tail(s))

\* the container _write_wav writes
WriteWav(fs, sample_rate) ==
    [nchannels |-> 1, sampwidth |-> 2, framerate |-> sample_rate,
     nbytes |-> SumBytes(fs)]

\* the container's length in samples, as its header gives it
WavSamples(w) == w.nbytes \div (w.nchannels * w.sampwidth)

----------------------------------------------------------------------------
(* Inputs of Spec *)

WakeWord == <<"H", "_", "n">>

\* what the acoustic model says of a frame with, and without, the wake word
WakePrediction == Dict(<<[key |-> <<"h", " ", "n">>, score |-> 95]>>)

QuietPrediction == Dict(<<[key |-> <<"h", " ", "n">>, score |-> 10]>>)

MainWake == [wake_word |-> WakeWord, threshold |-> 50, cooldown_s |-> 2]

MainCfg ==
    [sample_rate |-> 16, chunk_ms |-> 1000, pre_roll_ms |-> 2000,
     max_record_seconds |-> 2, min_record_seconds |-> 1,
     silence_threshold |-> 1, silence_ms |-> 1000]

\* the blocks the device delivers in Spec: silence, speech, the wake word
FrameKinds == {"silence", "speech", "wake"}

Block(id, kind, c) ==
    Frame(id,
          IF kind = "silence" THEN 0 ELSE 2,
          IF kind = "wake" THEN WakePrediction ELSE QuietPrediction,
          FrameSamples(c))

----------------------------------------------------------------------------
(* start(), stop() and the capture callback *)

StreamOpen ==
    pc \in {"top", "get", "check", "gate", "record", "encode", "handoff", "wait"}

\* start(): returns at once when already running, else runs _run_blocking in
\* a worker thread
Start ==
    /\ pc = "idle"
    /\ ~running
    /\ running' = TRUE
    /\ pc' = "init"
    /\ UNCHANGED <<cfg, wcfg, speaking, q, ring, last_trigger, now, frame, frames,
                   silence_frames, utterance, wav, hpc, herr, captured, heard,
                   stalled, pushed, snap, calls,
                   hctx, norm, used, lpc>>

\* _run_blocking up to the with statement: the detector, the frame size check,
\* the queue and the ring, and opening the input stream, which may fail
OpenStream ==
    /\ pc = "init"
    /\ \E opened \in BOOLEAN :
          pc' = IF FrameSamples(cfg) <= 0 \/ ~opened THEN "exited" ELSE "top"
    /\ q' = <<>>
    /\ ring' = <<>>
    /\ last_trigger' = 0
    /\ UNCHANGED <<cfg, wcfg, running, speaking, now, frame, frames, silence_frames,
                   utterance, wav, hpc, herr, captured, heard, stalled, pushed,
                   snap, calls,
                   hctx, norm, used, lpc>>

\* stop()
Stop ==
    /\ running
    /\ running' = FALSE
    /\ UNCHANGED <<cfg, wcfg, speaking, q, ring, last_trigger, now, pc, frame,
                   frames, silence_frames, utterance, wav, hpc, herr, captured,
                   heard, stalled, pushed, snap, calls,
                   hctx, norm, used, lpc>>

\* the finally clause of start(), once _run_blocking has returned
StartReturn ==
    /\ pc = "exited"
    /\ running' = FALSE
    /\ pc' = "returned"
    /\ UNCHANGED <<cfg, wcfg, speaking, q, ring, last_trigger, now, frame, frames,
                   silence_frames, utterance, wav, hpc, herr, captured, heard,
                   stalled, pushed, snap, calls,
                   hctx, norm, used, lpc>>

\* callback: one delivered block is put on the queue
Callback ==
    /\ StreamOpen
    /\ captured < MaxCaptured
    /\ \E kind \in FrameKinds : q' = Append(q, Block(captured + 1, kind, cfg))
    /\ captured' = captured + 1
    /\ heard' = IF speaking THEN heard \cup {captured + 1} ELSE heard
    /\ UNCHANGED <<cfg, wcfg, running, speaking, ring, last_trigger, now, pc, frame,
                   frames, silence_frames, utterance, wav, hpc, herr, stalled,
                   pushed, snap, calls,
                   hctx, norm, used, lpc>>

----------------------------------------------------------------------------
(* The controller loop of _run_blocking *)

\* LoopCondition for a loop that never tests the flag
LoopConditionForever(flag) == TRUE

\* the condition of while self._running:
LoopCondition(flag) == flag

\* while self._running: true, the controller goes on to q.get
LoopEnter ==
    /\ pc = "top"
    /\ LoopCondition(running)
    /\ pc' = "get"
    /\ UNCHANGED <<cfg, wcfg, running, speaking, q, ring, last_trigger, now, frame,
                   frames, silence_frames, utterance, wav, hpc, herr, captured,
                   heard, stalled, pushed, snap, calls,
                   hctx, norm, used, lpc>>

\* while self._running: false
LoopExit ==
    /\ pc = "top"
    /\ ~LoopCondition(running)
    /\ pc' = "exited"
    /\ UNCHANGED <<cfg, wcfg, running, speaking, q, ring, last_trigger, now, frame,
                   frames, silence_frames, utterance, wav, hpc, herr, captured,
                   heard, stalled, pushed, snap, calls,
                   hctx, norm, used, lpc>>

\* frame = q.get(timeout=0.5) raises queue.Empty: continue
LoopTimeout ==
    /\ pc = "get"
    /\ q = <<>>
    /\ pc' = "top"
    /\ UNCHANGED <<cfg, wcfg, running, speaking, q, ring, last_trigger, now, frame,
                   frames, silence_frames, utterance, wav, hpc, herr, captured,
                   heard, stalled, pushed, snap, calls,
                   hctx, norm, used, lpc>>

\* frame = q.get(timeout=0.5) returns a frame
LoopGet ==
    /\ pc = "get"
    /\ q # <<>>
    /\ frame' = Head(q)
    /\ q' = Tail(q)
    /\ pc' = "check"
    /\ UNCHANGED <<cfg, wcfg, running, speaking, ring, last_trigger, now, frames,
                   silence_frames, utterance, wav, hpc, herr, captured, heard,
                   stalled, pushed, snap, calls,
                   hctx, norm, used, lpc>>

\* if self._speaking: continue
CheckSpeaking ==
    /\ pc = "check"
    /\ pc' = IF speaking THEN "top" ELSE "gate"
    /\ UNCHANGED <<cfg, wcfg, running, speaking, q, ring, last_trigger, now, frame,
                   frames, silence_frames, utterance, wav, hpc, herr, captured,
                   heard, stalled, pushed, snap, calls,
                   hctx, norm, used, lpc>>

\* ring.append(frame); if detector.detect(frame): utterance = list(ring), and
\* the recorder starts with its empty list and zero counter
Gate ==
    /\ pc = "gate"
    /\ ring' = RingAppend(ring, frame, PreRollFrames(cfg))
    /\ \E t \in now..MaxNow :
          LET d == Detect(frame.pred, t, last_trigger, wcfg)
          IN  /\ now' = t
              /\ last_trigger' = d.last_trigger
              /\ IF d.result
                 THEN /\ snap' = Snapshot(ring')
                      /\ utterance' = Snapshot(ring')
                      /\ frames' = <<>>
                      /\ silence_frames' = 0
                      /\ stalled' = FALSE
                      /\ pc' = "record"
                 ELSE /\ pc' = "top"
                      /\ UNCHANGED <<snap, utterance, frames, silence_frames, stalled>>
    /\ UNCHANGED <<cfg, wcfg, running, speaking, q, frame, wav, hpc, herr, captured,
                   heard, pushed, calls,
                   hctx, norm, used, lpc>>

\* one turn of the recorder's loop that gets a frame; the recorder returns
\* when the silence rule or the end of range(max_frames) says so, and the
\* controller extends the utterance with what it returned
RecordGet ==
    /\ pc = "record"
    /\ q # <<>>
    /\ LET f == Head(q)
           fs == Append(frames, f)
           s == NextSilence(silence_frames, f, cfg)
       IN  /\ q' = Tail(q)
           /\ frames' = fs
           /\ silence_frames' = s
           /\ IF StopOnSilence(Len(fs), s, cfg) \/ RangeExhausted(Len(fs), cfg)
              THEN /\ utterance' = Compose(utterance, fs)
                   /\ pc' = "encode"
              ELSE UNCHANGED <<utterance, pc>>
    /\ UNCHANGED <<cfg, wcfg, running, speaking, ring, last_trigger, now, frame, wav,
                   hpc, herr, captured, heard, stalled, pushed, snap, calls,
                   hctx, norm, used, lpc>>

\* q.get(timeout=1.0) raises queue.Empty: the recorder returns what it has
RecordStall ==
    /\ pc = "record"
    /\ q = <<>>
    /\ stalled' = TRUE
    /\ utterance' = Compose(utterance, frames)
    /\ pc' = "encode"
    /\ UNCHANGED <<cfg, wcfg, running, speaking, q, ring, last_trigger, now, frame,
                   frames, silence_frames, wav, hpc, herr, captured, heard, pushed,
                   snap, calls,
                   hctx, norm, used, lpc>>

\* _write_wav: None for no frames; mkdir is outside the try statement, so an
\* error of it reaches the except clause around the loop; an error of the
\* wave writer is caught and gives None; None sends the loop round
Encode ==
    /\ pc = "encode"
    /\ \E outcome \in {"ok", "mkdir_error", "write_error"} :
          IF utterance = <<>> \/ outcome = "write_error"
          THEN wav' = NoWav /\ pc' = "top"
          ELSE IF outcome = "mkdir_error"
               THEN wav' = NoWav /\ pc' = "exited"
               ELSE wav' = WriteWav(utterance, cfg.sample_rate) /\ pc' = "handoff"
    /\ used' = used \cup Ids(utterance)
    /\ UNCHANGED <<cfg, wcfg, running, speaking, q, ring, last_trigger, now, frame,
                   frames, silence_frames, utterance, hpc, herr, captured, heard,
                   stalled, pushed, snap, calls,
                   hctx, norm, lpc>>

\* AfterHandoff without the wait for the future: the loop goes straight on
AfterHandoffNoWait == "top"

\* where the controller is after run_coroutine_threadsafe: in future.result()
AfterHandoff == "wait"

\* asyncio.run_coroutine_threadsafe(self._handle_utterance(audio_path), ...)
Handoff ==
    /\ pc = "handoff"
    /\ hpc' = "transcribe"
    /\ herr' = FALSE
    /\ pc' = AfterHandoff
    /\ hctx' = NoHandler
    /\ UNCHANGED <<cfg, wcfg, running, speaking, q, ring, last_trigger, now, frame,
                   frames, silence_frames, utterance, wav, captured, heard, stalled,
                   pushed, snap, calls,
                   norm, used, lpc>>

\* FutureDone for a result() that returns before the coroutine has finished
FutureDoneAtOnce == TRUE

\* future.result() returns or raises only when the coroutine has finished
FutureDone == hpc = "done"

\* future.result(), with the except clause that logs the handler's error
AwaitResult ==
    /\ pc = "wait"
    /\ FutureDone
    /\ pc' = "top"
    /\ hpc' = "idle"
    /\ herr' = FALSE
    /\ hctx' = NoHandler
    /\ UNCHANGED <<cfg, wcfg, running, speaking, q, ring, last_trigger, now, frame,
                   frames, silence_frames, utterance, wav, captured, heard, stalled,
                   pushed, snap, calls,
                   norm, used, lpc>>

----------------------------------------------------------------------------
(* The coroutine _handle_utterance *)

\* if not text: return
HasText(text) == text # ""

\* HasReply for a handler that speaks whatever process_direct returned
HasReplyAlways(response) == response # "raise"

\* if not response: return (a raise of process_direct leaves the coroutine)
HasReply(response) == response = "reply"

\* if tts_path:
HasAudio(tts_path) == tts_path = "path"

\* SpeakingAfterPlayback for a handler that clears the flag after the
\* playback instead of in a finally clause
SpeakingAfterPlaybackNoFinally(outcome) == outcome = "raise"

\* finally: self._speaking = False, however the playback ended
SpeakingAfterPlayback(outcome) == FALSE

\* transcribe returns: "" (also on any error) ends the turn, a text goes to
\* process_direct
Transcribed ==
    /\ hpc = "transcribe"
    /\ \E text \in {"", "text"} :
          /\ hpc' = IF HasText(text) THEN "agent" ELSE "done"
          /\ hctx' = [hctx EXCEPT !.text = text,
                                  !.called = IF HasText(text)
                                             THEN @ \cup {"agent"} ELSE @]
    /\ UNCHANGED <<cfg, wcfg, running, speaking, q, ring, last_trigger, now, pc, frame,
                   frames, silence_frames, utterance, wav, herr, captured, heard,
                   stalled, pushed, snap, calls,
                   norm, used, lpc>>

\* process_direct returns or raises; a reply sets the speaking flag and goes
\* to speak
AgentReplied ==
    /\ hpc = "agent"
    /\ \E response \in {"raise", "", "reply"} :
          /\ hpc' = IF HasReply(response) THEN "speak" ELSE "done"
          /\ herr' = (response = "raise")
          /\ speaking' = HasReply(response)
          /\ hctx' = [hctx EXCEPT !.response = response,
                                  !.called = IF HasReply(response)
                                             THEN @ \cup {"speak"} ELSE @]
    /\ UNCHANGED <<cfg, wcfg, running, q, ring, last_trigger, now, pc, frame, frames,
                   silence_frames, utterance, wav, captured, heard, stalled, pushed,
                   snap, calls,
                   norm, used, lpc>>

\* speak returns a path, which goes to _play_wav, or None on any error; None
\* goes to the finally clause
Spoke ==
    /\ hpc = "speak"
    /\ \E tts_path \in {"none", "path"} :
          /\ hpc' = IF HasAudio(tts_path) THEN "play" ELSE "done"
          /\ speaking' = HasAudio(tts_path)
          /\ hctx' = [hctx EXCEPT !.tts_path = tts_path,
                                  !.called = IF HasAudio(tts_path)
                                             THEN @ \cup {"play"} ELSE @]
    /\ UNCHANGED <<cfg, wcfg, running, q, ring, last_trigger, now, pc, frame, frames,
                   silence_frames, utterance, wav, herr, captured, heard, stalled,
                   pushed, snap, calls,
                   norm, used, lpc>>

\* asyncio.to_thread(self._play_wav, tts_path) returns (_play_wav logs its own
\* errors) or raises; the finally clause clears the flag
Played ==
    /\ hpc = "play"
    /\ \E outcome \in {"ok", "raise"} :
          /\ speaking' = SpeakingAfterPlayback(outcome)
          /\ herr' = (outcome = "raise")
    /\ hpc' = "done"
    /\ UNCHANGED <<cfg, wcfg, running, q, ring, last_trigger, now, pc, frame, frames,
                   silence_frames, utterance, wav, captured, heard, stalled,
                   pushed, snap, calls,
                   hctx, norm, used, lpc>>

----------------------------------------------------------------------------
(* Spec: one call of start() *)

Init ==
    /\ cfg = MainCfg
    /\ wcfg = MainWake
    /\ running = FALSE
    /\ speaking = FALSE
    /\ q = <<>>
    /\ ring = <<>>
    /\ last_trigger = 0
    /\ now = Epoch
    /\ pc = "idle"
    /\ frame = NoFrame
    /\ frames = <<>>
    /\ silence_frames = 0
    /\ utterance = <<>>
    /\ wav = NoWav
    /\ hpc = "idle"
    /\ herr = FALSE
    /\ captured = 0
    /\ heard = {}
    /\ stalled = FALSE
    /\ pushed = <<>>
    /\ snap = <<>>
    /\ calls = <<>>
    /\ hctx = NoHandler
    /\ norm = NoKeyword
    /\ used = {}
    /\ lpc = NoLoops

Next ==
    \/ Start
    \/ OpenStream
    \/ Stop
    \/ StartReturn
    \/ Callback
    \/ LoopEnter
    \/ LoopExit
    \/ LoopTimeout
    \/ LoopGet
    \/ CheckSpeaking
    \/ Gate
    \/ RecordGet
    \/ RecordStall
    \/ Encode
    \/ Handoff
    \/ AwaitResult
    \/ Transcribed
    \/ AgentReplied
    \/ Spoke
    \/ Played

Spec == Init /\ [][Next]_vars

\* the steps of the worker thread that start() runs and awaits
Controller ==
    \/ OpenStream
    \/ LoopEnter
    \/ LoopExit
    \/ LoopTimeout
    \/ LoopGet
    \/ CheckSpeaking
    \/ Gate
    \/ RecordGet
    \/ RecordStall
    \/ Encode
    \/ Handoff
    \/ AwaitResult
    \/ StartReturn

\* the steps of the coroutine _handle_utterance on the event loop
Handler == Transcribed \/ AgentReplied \/ Spoke \/ Played

\* Spec with a worker thread that keeps being scheduled (each q.get returns
\* within its timeout) and a handler whose awaits all return; nothing is
\* assumed of the callback or of stop()
SpecLive == Init /\ [][Next]_vars /\ WF_vars(Controller) /\ WF_vars(Handler)

----------------------------------------------------------------------------
(* Properties of Spec *)

IsPrefix(s, t) == Len(s) <= Len(t) /\ SubSeq(t, 1, Len(s)) = s

StrictlyIncreasing(s) == \A i \in 1..Len(s) : \A j \in 1..Len(s) : i < j => s[i].id < s[j].id

\* the handler has been scheduled and has not returned
HandlerInFlight == hpc \in {"transcribe", "agent", "speak", "play"}

\* a step in which detect returns true
GateTriggers == pc = "gate" /\ pc' = "record"

\* C1: while the speaking flag is set (from the handler setting it before
\* synthesis until it clears it after playback), no call of detect reports a
\* trigger, whatever frames the callback enqueues meanwhile.
C1_NoTriggerWhileSpeaking == [][speaking => ~GateTriggers]_vars

\* C1 witness: the flag is set and a frame enqueued during that interval, with
\* a score at or above the threshold, waits in the queue
C1_Witness ==
    /\ speaking
    /\ \E i \in 1..Len(q) : q[i].id \in heard /\ HasQualifyingScore(q[i].pred, wcfg)

\* C2: a frame enqueued while the speaking flag was set is never passed to
\* detect, never in the pre-roll ring and never among recorded frames.
C2_HeardFramesDropped ==
    /\ pc = "gate" => frame.id \notin heard
    /\ Ids(ring) \cap heard = {}
    /\ Ids(frames) \cap heard = {}

\* C3: from the handoff until the handler has returned, the controller stays
\* in future.result(): it takes no frame off the queue, calls no detect,
\* records nothing and schedules no second handler.
C3_OneUtteranceInFlight ==
    [][HandlerInFlight =>
          /\ pc = "wait" /\ pc' = "wait"
          /\ IsPrefix(q, q')
          /\ ring' = ring /\ last_trigger' = last_trigger
          /\ frames' = frames /\ utterance' = utterance]_vars

\* C3 witness: the handler is in flight while frames, a wake-word frame among
\* them, wait in the queue
C3_Witness ==
    /\ HandlerInFlight
    /\ \E i \in 1..Len(q) : HasQualifyingScore(q[i].pred, wcfg)

\* C8: the utterance handed to the encoder is the ring's snapshot, ending with
\* the frame that triggered, followed by the recorder's frames; its frames are
\* in strictly increasing capture order (so none occurs twice).
C8_UtteranceComposition ==
    pc = "encode" =>
        /\ utterance = ring \o frames
        /\ ring # <<>>
        /\ ring[Len(ring)] = frame
        /\ StrictlyIncreasing(utterance)

\* C8 witness: an utterance of two pre-roll frames and two recorded frames
C8_Witness == pc = "encode" /\ Len(ring) >= 2 /\ Len(frames) >= 2

\* C10: no failure of a step after a trigger (recording, encoding, persisting,
\* the handoff, the handler) ends the capture loop.
C10_UtteranceFailureKeepsLoop ==
    [][(pc \in {"record", "encode", "handoff", "wait"}) => pc' # "exited"]_vars

\* C11: the handler calls the agent only with a non-empty transcription, sets
\* the speaking flag and calls speak only with a non-empty reply, and plays
\* only a synthesis that succeeded; with an empty transcription or an empty
\* reply the flag is not set and nothing is played.
C11_HandlerGating ==
    /\ "agent" \in hctx.called => hctx.text = "text"
    /\ "speak" \in hctx.called => hctx.response = "reply"
    /\ speaking => hctx.response = "reply"
    /\ "play" \in hctx.called => hctx.tts_path = "path"
    /\ (hctx.text = "" \/ hctx.response = "") =>
          /\ ~speaking
          /\ hctx.called \cap {"speak", "play"} = {}
    /\ hctx.text = "" => "agent" \notin hctx.called

\* C11 witness: a handler that got a text and an empty reply has returned
C11_Witness ==
    hpc = "done" /\ hctx.text = "text" /\ hctx.response = "" /\ ~herr

\* C12: once _handle_utterance has finished, by whichever exit, the speaking
\* flag is false, and it is false whenever the controller is not waiting for
\* the handler.
C12_SpeakingCleared ==
    /\ hpc \in {"idle", "done"} => ~speaking
    /\ pc # "wait" => ~speaking

\* C12 witness: the playback raised and the handler has finished
C12_Witness == hpc = "done" /\ "play" \in hctx.called /\ herr

\* C13: a stop() during a recording or a handoff takes effect only at the top
\* of the loop: with the flag cleared the controller still finishes the
\* utterance it is in (it leaves future.result() only when the handler has
\* returned) and does not leave the loop from inside it; once the loop has
\* exited no frame is gated any more.
C13_StopCompletesUtterance ==
    [][/\ (~running /\ pc \in {"check", "gate", "record", "encode", "handoff", "wait"})
            => pc' # "exited"
       /\ (pc = "wait" /\ pc' # "wait") => (hpc = "done" /\ pc' = "top")
       /\ (pc \in {"exited", "returned"}) => pc' \in {"exited", "returned"}]_vars

\* stop() has been called and start() has not returned yet
StopPending == ~running /\ pc \in {"init", "exited"} \cup
    {"top", "get", "check", "gate", "record", "encode", "handoff", "wait"}

\* C18: once stop() has been called, with no later start(), the capture loop
\* exits and start() returns with the running flag false, whether or not
\* frames keep arriving, given that a handler in flight returns.
C18_StopLiveness == StopPending ~> (pc = "returned" /\ ~running)

\* C18 witness: the loop has exited on a stop() with frames still queued, and
\* start() is about to return
C18_Witness == pc = "exited" /\ ~running /\ q # <<>> /\ used # {}

\* the capture numbers of a list of frames, in order
IdSeq(s) == [i \in 1..Len(s) |-> s[i].id]

\* the capture numbers of the last c frames up to frame k
Window(k, c) == [i \in 1..Min(c, k) |-> k - Min(c, k) + i]

\* C15: every frame taken off the queue is pushed into the ring, whatever the
\* pipeline is doing, so the ring holds the most recent frames taken and at a
\* trigger the snapshot is the most recent look-back window of the capture.
C15_RingFedOnEveryFrame ==
    /\ (pc \in {"top", "get", "record", "encode", "handoff", "wait"}) =>
          IdSeq(ring) = Window(captured - Len(q), PreRollFrames(cfg))
    /\ (pc \in {"record", "encode"}) =>
          IdSeq(snap) = Window(frame.id, PreRollFrames(cfg))

\* C19: no captured frame is in two utterances: the utterance about to be
\* encoded shares no frame with the earlier ones, and its pre-roll holds only
\* frames captured after the last frame of the earlier ones.
C19_UtterancesDisjoint ==
    pc = "encode" =>
        /\ Ids(utterance) \cap used = {}
        /\ \A i \in Ids(snap) : \A j \in used : i > j

----------------------------------------------------------------------------
(* SpecRing: the pre-roll deque, for every capacity and every frame sequence *)

\* the settings that decide the capacity: negative, zero, below one chunk,
\* exact multiples and a remainder
RingCfgs ==
    {[MainCfg EXCEPT !.pre_roll_ms = p, !.chunk_ms = c] :
        p \in {-1000, 0, 1000, 2000, 3000}, c \in {1000, 1500}}

InitRing ==
    /\ cfg \in RingCfgs
    /\ wcfg = MainWake
    /\ running = TRUE
    /\ speaking = FALSE
    /\ q = <<>>
    /\ ring = <<>>
    /\ last_trigger = 0
    /\ now = Epoch
    /\ pc = "ring"
    /\ frame = NoFrame
    /\ frames = <<>>
    /\ silence_frames = 0
    /\ utterance = <<>>
    /\ wav = NoWav
    /\ hpc = "idle"
    /\ herr = FALSE
    /\ captured = 0
    /\ heard = {}
    /\ stalled = FALSE
    /\ pushed = <<>>
    /\ snap = <<>>
    /\ calls = <<>>
    /\ hctx = NoHandler
    /\ norm = NoKeyword
    /\ used = {}
    /\ lpc = NoLoops

\* ring.append(frame) for the next captured frame
RingFeed ==
    /\ pc = "ring"
    /\ Len(pushed) < MaxPushed
    /\ \E kind \in FrameKinds :
          LET f == Block(Len(pushed) + 1, kind, cfg)
          IN  /\ ring' = RingAppend(ring, f, PreRollFrames(cfg))
              /\ pushed' = Append(pushed, f)
    /\ UNCHANGED <<cfg, wcfg, running, speaking, q, last_trigger, now, pc, frame,
                   frames, silence_frames, utterance, wav, hpc, herr, captured,
                   heard, stalled, snap, calls,
                   hctx, norm, used, lpc>>

\* list(ring)
RingSnapshot ==
    /\ pc = "ring"
    /\ snap' = Snapshot(ring)
    /\ UNCHANGED <<cfg, wcfg, running, speaking, q, ring, last_trigger, now, pc,
                   frame, frames, silence_frames, utterance, wav, hpc, herr,
                   captured, heard, stalled, pushed, calls,
                   hctx, norm, used, lpc>>

NextRing == RingFeed \/ RingSnapshot

SpecRing == InitRing /\ [][NextRing]_vars

\* C4: after n frames pushed into a ring of capacity c = max(1, pre_roll_ms /
\* chunk_ms), the snapshot is the whole sequence in order when n < c and the
\* most recent c frames in order when n > c; a snapshot leaves the ring as is.
C4_RingFifoEviction ==
    /\ [](LET n == Len(pushed)
              c == PreRollFrames(cfg)
          IN  /\ n < c => Snapshot(ring) = pushed
              /\ n > c => Snapshot(ring) = SubSeq(pushed, n - c + 1, n))
    /\ [][snap' # snap => ring' = ring /\ snap' = ring]_vars

\* C4 witness: a snapshot taken of a ring of capacity above one that has
\* evicted frames
C4_Witness ==
    /\ PreRollFrames(cfg) >= 2
    /\ Len(pushed) > PreRollFrames(cfg) + 1
    /\ snap = ring
    /\ Len(snap) = PreRollFrames(cfg)

----------------------------------------------------------------------------
(* SpecGate: detect alone, called with any prediction at any later time *)

OtherPrediction == Dict(<<[key |-> <<"x">>, score |-> 95]>>)

\* no dict, an empty dict, the wake word above, at and below the threshold,
\* another keyword above it beside the wake word below it, another keyword
\* alone
GatePredictions ==
    {NotADict, Dict(<<>>), WakePrediction, QuietPrediction,
     Dict(<<[key |-> <<"h", " ", "n">>, score |-> 50]>>),
     Dict(<<[key |-> <<"x">>, score |-> 95], [key |-> <<"h", "_", "N">>, score |-> 10]>>),
     OtherPrediction}

\* the wake word as configured in Spec, and in lower case with spaces around it
GateWakeWords == {WakeWord, <<" ", "h", " ", "n", " ">>}

GateCfgs ==
    {[MainWake EXCEPT !.cooldown_s = c, !.wake_word = w] :
        c \in {0, 2, 3}, w \in GateWakeWords}

InitGate ==
    /\ cfg = MainCfg
    /\ wcfg \in GateCfgs
    /\ running = TRUE
    /\ speaking = FALSE
    /\ q = <<>>
    /\ ring = <<>>
    /\ last_trigger = 0
    /\ now = Epoch
    /\ pc = "detect"
    /\ frame = NoFrame
    /\ frames = <<>>
    /\ silence_frames = 0
    /\ utterance = <<>>
    /\ wav = NoWav
    /\ hpc = "idle"
    /\ herr = FALSE
    /\ captured = 0
    /\ heard = {}
    /\ stalled = FALSE
    /\ pushed = <<>>
    /\ snap = <<>>
    /\ calls = <<>>
    /\ hctx = NoHandler
    /\ norm = NoKeyword
    /\ used = {}
    /\ lpc = NoLoops

\* detector.detect(frame) at time t, for a frame with prediction pred
DetectCall ==
    /\ pc = "detect"
    /\ Len(calls) < MaxCalls
    /\ \E pred \in GatePredictions : \E t \in now..MaxNow :
          LET d == Detect(pred, t, last_trigger, wcfg)
          IN  /\ now' = t
              /\ last_trigger' = d.last_trigger
              /\ calls' = Append(calls, [t |-> t, pred |-> pred, result |-> d.result])
    /\ UNCHANGED <<cfg, wcfg, running, speaking, q, ring, pc, frame, frames,
                   silence_frames, utterance, wav, hpc, herr, captured, heard,
                   stalled, pushed, snap,
                   hctx, norm, used, lpc>>

NextGate == DetectCall

SpecGate == InitGate /\ [][NextGate]_vars

\* the calls before the j-th that accepted a trigger
AcceptedBefore(j) == {i \in 1..(j - 1) : calls[i].result}

\* the most recent of them
LastAccepted(j) == CHOOSE i \in AcceptedBefore(j) : \A k \in AcceptedBefore(j) : k <= i

\* C5: after a trigger accepted at t1, every call at t2 with t2 - t1 <
\* cooldown_s returns false, whatever the score; a call with a qualifying score
\* at t2 with t2 - t1 >= cooldown_s, t1 the latest accepted trigger, returns
\* true.
C5_Cooldown ==
    \A j \in 1..Len(calls) :
        /\ \A i \in AcceptedBefore(j) :
              calls[j].t - calls[i].t < wcfg.cooldown_s => ~calls[j].result
        /\ ( /\ AcceptedBefore(j) # {}
             /\ calls[j].t - calls[LastAccepted(j)].t >= wcfg.cooldown_s
             /\ HasQualifyingScore(calls[j].pred, wcfg) )
           => calls[j].result

\* C5 witness: a trigger, a qualifying frame refused within the cooldown, and
\* a trigger accepted exactly when the cooldown has passed
C5_Witness ==
    /\ Len(calls) >= 3
    /\ wcfg.cooldown_s > 0
    /\ calls[1].result
    /\ HasQualifyingScore(calls[2].pred, wcfg) /\ ~calls[2].result
    /\ calls[3].result /\ calls[3].t - calls[1].t = wcfg.cooldown_s

\* the j-th call is outside the cooldown of the latest accepted trigger
Armed(j) ==
    LET last == IF AcceptedBefore(j) = {} THEN 0 ELSE calls[LastAccepted(j)].t
    IN  calls[j].t - last >= wcfg.cooldown_s

\* the items of a prediction whose keyword normalizes to the same string as
\* the configured wake word
Matching(p) ==
    {i \in 1..Len(p.items) :
        NormalizeKeyword(p.items[i].key) = NormalizeKeyword(wcfg.wake_word)}

\* C16: outside the cooldown, when a predicted keyword matches the configured
\* wake word after normalization, detect returns whether that keyword's score
\* reaches the threshold, whatever the other scores; when none matches, it
\* returns whether any score reaches it; an empty prediction or one that is
\* not a mapping gives false.
C16_GateKeywordSelection ==
    \A j \in 1..Len(calls) :
        LET p == calls[j].pred
        IN  /\ (~p.dict \/ p.items = <<>>) => ~calls[j].result
            /\ (p.dict /\ Armed(j) /\ Cardinality(Matching(p)) = 1) =>
                  calls[j].result =
                      (\E i \in Matching(p) : p.items[i].score >= wcfg.threshold)
            /\ (p.dict /\ Armed(j) /\ Matching(p) = {}) =>
                  calls[j].result =
                      (\E i \in 1..Len(p.items) : p.items[i].score >= wcfg.threshold)

\* C16 witness: a prediction with the wake word below the threshold beside
\* another keyword above it was refused, then a prediction with only another
\* keyword above the threshold was accepted
C16_Witness ==
    /\ Len(calls) >= 2
    /\ Len(calls[1].pred.items) = 2 /\ Armed(1) /\ ~calls[1].result
    /\ calls[2].pred = OtherPrediction /\ calls[2].result

----------------------------------------------------------------------------
(* SpecRec: _record_utterance alone, on every queued stream *)

\* maximum, minimum and silence settings, at two chunk lengths: minimum above
\* and below the maximum, zero values, values that do not divide evenly
RecCfgs ==
    {[MainCfg EXCEPT !.max_record_seconds = mx, !.min_record_seconds = mn,
                     !.silence_ms = sl, !.chunk_ms = c] :
        mx \in 0..6, mn \in 0..3, sl \in {0, 1000, 2000}, c \in {1000, 1500}}

\* the streams that may wait in the queue when the recorder starts: loudness
\* below, at and above the silence threshold; the trigger frame has number 1
Loudness == 0..2

Streams ==
    UNION {[1..n -> Loudness] : n \in 0..MaxStream}

QueueOf(stream, c) ==
    [i \in 1..Len(stream) |-> Frame(i + 1, stream[i], QuietPrediction, FrameSamples(c))]

InitRec ==
    /\ cfg \in RecCfgs
    /\ wcfg = MainWake
    /\ running = TRUE
    /\ speaking = FALSE
    /\ \E stream \in Streams :
          /\ q = QueueOf(stream, cfg)
          /\ captured = Len(stream) + 1
    /\ frame = Block(1, "wake", cfg)
    /\ ring = <<frame>>
    /\ snap = <<frame>>
    /\ utterance = <<frame>>
    /\ last_trigger = Epoch
    /\ now = Epoch
    /\ pc = "record"
    /\ frames = <<>>
    /\ silence_frames = 0
    /\ wav = NoWav
    /\ hpc = "idle"
    /\ herr = FALSE
    /\ heard = {}
    /\ stalled = FALSE
    /\ pushed = <<>>
    /\ calls = <<>>
    /\ hctx = NoHandler
    /\ norm = NoKeyword
    /\ used = {}
    /\ lpc = NoLoops

NextRec == RecordGet \/ RecordStall

SpecRec == InitRec /\ [][NextRec]_vars

\* the frames the recorder has taken and those still queued
Stream == frames \o q

Loud(f) == ~IsSilent(f, cfg)

\* C6: the recorder never returns more than max_frames frames, whatever the
\* minimum is; when every frame is at or above the silence threshold and the
\* queue does not stall, it returns exactly max_frames frames.
C6_MaxCap ==
    /\ Len(frames) <= MaxFrames(cfg)
    /\ ( /\ pc = "encode"
         /\ ~stalled
         /\ \A i \in 1..Len(frames) : Loud(frames[i]) )
       => Len(frames) = MaxFrames(cfg)

\* C6 witness: a recording of loud frames only, cut at a maximum of two or
\* more frames that lies below the minimum
C6_Witness ==
    /\ pc = "encode"
    /\ ~stalled
    /\ \A i \in 1..Len(frames) : Loud(frames[i])
    /\ Len(frames) = MaxFrames(cfg)
    /\ MaxFrames(cfg) >= 2
    /\ MinFrames(cfg) > MaxFrames(cfg)

\* the stream of C7: loud for the first min_frames - 1 frames, silent for
\* silence_limit frames after the min_frames-th, and max_frames beyond them
C7_Stream ==
    /\ Len(Stream) >= MinFrames(cfg) + SilenceLimit(cfg)
    /\ MaxFrames(cfg) > MinFrames(cfg) + SilenceLimit(cfg)
    /\ \A i \in 1..(MinFrames(cfg) - 1) : Loud(Stream[i])
    /\ \A i \in (MinFrames(cfg) + 1)..(MinFrames(cfg) + SilenceLimit(cfg)) :
          IsSilent(Stream[i], cfg)

\* C7 as stated: on such a stream the recorder stops at exactly min_frames +
\* silence_limit frames.
C7_Original ==
    (pc = "encode" /\ ~stalled /\ C7_Stream)
        => Len(frames) = MinFrames(cfg) + SilenceLimit(cfg)

\* C7 amended: on such a stream whose min_frames-th frame is at or above the
\* silence threshold too, the recorder stops at exactly min_frames +
\* silence_limit frames.
C7_EndpointCount ==
    (pc = "encode" /\ ~stalled /\ C7_Stream /\ Loud(Stream[MinFrames(cfg)]))
        => Len(frames) = MinFrames(cfg) + SilenceLimit(cfg)

\* C7 witness: such a recording with a minimum and a silence run of two frames
C7_Witness ==
    /\ pc = "encode" /\ ~stalled /\ C7_Stream /\ Loud(Stream[MinFrames(cfg)])
    /\ MinFrames(cfg) >= 2
    /\ SilenceLimit(cfg) >= 2
    /\ Len(frames) = MinFrames(cfg) + SilenceLimit(cfg)

\* the recorder thread keeps running: each q.get returns within its timeout
SpecRecFair == InitRec /\ [][NextRec]_vars /\ WF_vars(NextRec)

\* the reference rule: the prefix of k frames of the stream ends a recording
RefStop(k) ==
    \/ k = MaxFrames(cfg)
    \/ /\ k >= MinFrames(cfg)
       /\ k >= SilenceLimit(cfg)
       /\ \A i \in (k - SilenceLimit(cfg) + 1)..k : IsSilent(Stream[i], cfg)

\* what the reference says of the recorder's state
RefAgrees ==
    /\ pc = "record" => \A k \in 1..Len(frames) : ~RefStop(k)
    /\ (pc = "encode" /\ ~stalled) =>
          /\ Len(frames) >= 1
          /\ RefStop(Len(frames))
          /\ \A k \in 1..(Len(frames) - 1) : ~RefStop(k)
    /\ (pc = "encode" /\ stalled) =>
          /\ q = <<>>
          /\ \A k \in 1..Len(frames) : ~RefStop(k)

\* C17: the recorder returns the shortest prefix of the stream whose length
\* is max_frames, or whose length is at least min_frames and whose last
\* silence_limit frames are all below the threshold; on a stall before that
\* it returns the frames pulled so far; and it always returns.
C17_RecorderReference == []RefAgrees /\ <>(pc = "encode")

\* C17 witness: the recorder returned on the silence rule, before max_frames,
\* after a silence run that a loud frame had interrupted
C17_Witness ==
    /\ pc = "encode" /\ ~stalled
    /\ Len(frames) < MaxFrames(cfg)
    /\ SilenceLimit(cfg) >= 2
    /\ \E i \in 2..Len(frames) : IsSilent(frames[i - 1], cfg) /\ Loud(frames[i])

----------------------------------------------------------------------------
(* SpecE2E: the controller on the end-to-end scenario *)

\* 125 ms chunks of 2000 samples; a minimum of one second is 8 frames, the
\* silence run is the scenario's tail, the maximum lies beyond the stream
E2ECfgs ==
    {[sample_rate |-> 16000, chunk_ms |-> 125, pre_roll_ms |-> p,
      max_record_seconds |-> 5, min_record_seconds |-> 1,
      silence_threshold |-> 1, silence_ms |-> ScenTail * 125] :
        p \in {0, 250, 1000, 10000}}

\* lead silent frames, the wake-word frame, the loud frames, the silent frames
ScenarioKinds(lead) ==
    [i \in 1..(lead + 1 + ScenLoud + ScenTail) |->
        IF i <= lead THEN "silence"
        ELSE IF i = lead + 1 THEN "wake"
        ELSE IF i <= lead + 1 + ScenLoud THEN "speech"
        ELSE "silence"]

ScenarioQueue(lead, c) ==
    LET kinds == ScenarioKinds(lead)
    IN  [i \in 1..Len(kinds) |-> Block(i, kinds[i], c)]

ScenarioLength == ScenLead + 1 + ScenLoud + ScenTail

InitE2E ==
    /\ cfg \in E2ECfgs
    /\ wcfg = [MainWake EXCEPT !.threshold = 50]
    /\ running = TRUE
    /\ speaking = FALSE
    /\ \E lead \in {0, 1, ScenLead} :
          /\ q = ScenarioQueue(lead, cfg)
          /\ captured = Len(q)
    /\ ring = <<>>
    /\ last_trigger = 0
    /\ now = Epoch
    /\ pc = "top"
    /\ frame = NoFrame
    /\ frames = <<>>
    /\ silence_frames = 0
    /\ utterance = <<>>
    /\ wav = NoWav
    /\ hpc = "idle"
    /\ herr = FALSE
    /\ heard = {}
    /\ stalled = FALSE
    /\ pushed = <<>>
    /\ snap = <<>>
    /\ calls = <<>>
    /\ hctx = NoHandler
    /\ norm = NoKeyword
    /\ used = {}
    /\ lpc = NoLoops

NextE2E ==
    \/ LoopEnter
    \/ LoopTimeout
    \/ LoopGet
    \/ CheckSpeaking
    \/ Gate
    \/ RecordGet
    \/ Encode
    \/ Handoff
    \/ AwaitResult
    \/ Transcribed
    \/ AgentReplied
    \/ Spoke
    \/ Played

SpecE2E == InitE2E /\ [][NextE2E]_vars

\* C9 as stated: the encoded utterance holds frame_samples samples for each
\* frame the recorder returned; in the scenario the recorder returns 25 frames
\* and the encoded utterance holds 25 * frame_samples samples.
C9_Original ==
    pc = "handoff" =>
        /\ WavSamples(wav) = FrameSamples(cfg) * Len(frames)
        /\ captured = ScenarioLength =>
              /\ Len(frames) = ScenLoud + ScenTail
              /\ WavSamples(wav) = (ScenLoud + ScenTail) * FrameSamples(cfg)

\* C9 amended: the encoded utterance holds frame_samples samples for each
\* frame of the snapshot and each frame the recorder returned; in the scenario
\* the recorder returns 25 frames, the snapshot holds min(51, capacity) frames
\* and the encoded utterance holds (min(51, capacity) + 25) * frame_samples
\* samples.
C9_EncodedLength ==
    pc = "handoff" =>
        /\ WavSamples(wav) = FrameSamples(cfg) * (Len(snap) + Len(frames))
        /\ wav.framerate = cfg.sample_rate
        /\ captured = ScenarioLength =>
              /\ Len(frames) = ScenLoud + ScenTail
              /\ Len(snap) = Min(ScenLead + 1, PreRollFrames(cfg))
              /\ WavSamples(wav) =
                    (Min(ScenLead + 1, PreRollFrames(cfg)) + ScenLoud + ScenTail)
                        * FrameSamples(cfg)

\* C9 witness: the scenario's utterance, with a pre-roll of several frames,
\* is encoded
C9_Witness ==
    /\ pc = "handoff"
    /\ captured = ScenarioLength
    /\ Len(frames) = ScenLoud + ScenTail
    /\ Len(snap) > 1
    /\ wav # NoWav

----------------------------------------------------------------------------
(* SpecNorm: _normalize_keyword alone, on every short keyword *)

\* letters of either case, the underscore and the space
KeyChars == {"h", "H", "n", "_", " "}

Keywords == UNION {[1..n -> KeyChars] : n \in 0..MaxKeyLen}

InitNorm ==
    /\ cfg = MainCfg
    /\ wcfg = MainWake
    /\ running = FALSE
    /\ speaking = FALSE
    /\ q = <<>>
    /\ ring = <<>>
    /\ last_trigger = 0
    /\ now = Epoch
    /\ pc = "normalize"
    /\ frame = NoFrame
    /\ frames = <<>>
    /\ silence_frames = 0
    /\ utterance = <<>>
    /\ wav = NoWav
    /\ hpc = "idle"
    /\ herr = FALSE
    /\ captured = 0
    /\ heard = {}
    /\ stalled = FALSE
    /\ pushed = <<>>
    /\ snap = <<>>
    /\ calls = <<>>
    /\ hctx = NoHandler
    /\ \E name \in Keywords : norm = [input |-> name, value |-> name, applied |-> 0]
    /\ used = {}
    /\ lpc = NoLoops

\* one call of _normalize_keyword on the value the last call returned
Normalize ==
    /\ pc = "normalize"
    /\ norm.applied < MaxApplied
    /\ norm' = [norm EXCEPT !.value = NormalizeKeyword(@), !.applied = @ + 1]
    /\ UNCHANGED <<cfg, wcfg, running, speaking, q, ring, last_trigger, now, pc, frame,
                   frames, silence_frames, utterance, wav, hpc, herr, captured,
                   heard, stalled, pushed, snap, calls, hctx, used, lpc>>

NextNorm == Normalize

SpecNorm == InitNorm /\ [][NextNorm]_vars

\* C14: _normalize_keyword is idempotent on every string over letters of
\* either case, spaces and underscores: applied twice it gives what it gives
\* applied once.
C14_NormalizeIdempotent ==
    norm.applied = 2 => norm.value = NormalizeKeyword(norm.input)

----------------------------------------------------------------------------
(* SpecLife: several calls of start() and calls of stop(), interleaved; what *)
(* a capture loop does with a frame is one step here                        *)

InitLife ==
    /\ cfg = MainCfg
    /\ wcfg = MainWake
    /\ running = FALSE
    /\ speaking = FALSE
    /\ q = <<>>
    /\ ring = <<>>
    /\ last_trigger = 0
    /\ now = Epoch
    /\ pc = "life"
    /\ frame = NoFrame
    /\ frames = <<>>
    /\ silence_frames = 0
    /\ utterance = <<>>
    /\ wav = NoWav
    /\ hpc = "idle"
    /\ herr = FALSE
    /\ captured = 0
    /\ heard = {}
    /\ stalled = FALSE
    /\ pushed = <<>>
    /\ snap = <<>>
    /\ calls = <<>>
    /\ hctx = NoHandler
    /\ norm = NoKeyword
    /\ used = {}
    /\ lpc = NoLoops

\* the i-th call of start(): it returns at once when the flag is set, else it
\* sets the flag and runs _run_blocking in a worker thread
LifeStart(i) ==
    /\ pc = "life"
    /\ lpc[i] = "unused"
    /\ \A j \in 1..(i - 1) : lpc[j] # "unused"
    /\ IF running
       THEN lpc' = [lpc EXCEPT ![i] = "returned"] /\ UNCHANGED running
       ELSE lpc' = [lpc EXCEPT ![i] = "init"] /\ running' = TRUE
    /\ UNCHANGED <<cfg, wcfg, speaking, q, ring, last_trigger, now, pc, frame,
                   frames, silence_frames, utterance, wav, hpc, herr, captured,
                   heard, stalled, pushed, snap, calls, hctx, norm, used>>

\* stop()
LifeStop ==
    /\ pc = "life"
    /\ running
    /\ running' = FALSE
    /\ UNCHANGED <<cfg, wcfg, speaking, q, ring, last_trigger, now, pc, frame,
                   frames, silence_frames, utterance, wav, hpc, herr, captured,
                   heard, stalled, pushed, snap, calls, hctx, norm, used, lpc>>

\* _run_blocking of the i-th call up to the loop: the stream opens or fails
LifeOpen(i) ==
    /\ lpc[i] = "init"
    /\ \E opened \in BOOLEAN :
          lpc' = [lpc EXCEPT ![i] = IF opened THEN "top" ELSE "exited"]
    /\ UNCHANGED <<cfg, wcfg, running, speaking, q, ring, last_trigger, now, pc, frame,
                   frames, silence_frames, utterance, wav, hpc, herr, captured,
                   heard, stalled, pushed, snap, calls, hctx, norm, used>>

\* while self._running: of the i-th call
LifeTest(i) ==
    /\ lpc[i] = "top"
    /\ lpc' = [lpc EXCEPT ![i] = IF LoopCondition(running) THEN "body" ELSE "exited"]
    /\ UNCHANGED <<cfg, wcfg, running, speaking, q, ring, last_trigger, now, pc, frame,
                   frames, silence_frames, utterance, wav, hpc, herr, captured,
                   heard, stalled, pushed, snap, calls, hctx, norm, used>>

\* one turn of the loop body of the i-th call: back to the top, or out
\* through the except clause around the stream block
LifeBody(i) ==
    /\ lpc[i] = "body"
    /\ \E failed \in BOOLEAN :
          lpc' = [lpc EXCEPT ![i] = IF failed THEN "exited" ELSE "top"]
    /\ UNCHANGED <<cfg, wcfg, running, speaking, q, ring, last_trigger, now, pc, frame,
                   frames, silence_frames, utterance, wav, hpc, herr, captured,
                   heard, stalled, pushed, snap, calls, hctx, norm, used>>

\* the finally clause of the i-th call of start()
LifeReturn(i) ==
    /\ lpc[i] = "exited"
    /\ running' = FALSE
    /\ lpc' = [lpc EXCEPT ![i] = "returned"]
    /\ UNCHANGED <<cfg, wcfg, speaking, q, ring, last_trigger, now, pc, frame,
                   frames, silence_frames, utterance, wav, hpc, herr, captured,
                   heard, stalled, pushed, snap, calls, hctx, norm, used>>

NextLife ==
    \/ LifeStop
    \/ \E i \in 1..MaxStarts :
          \/ LifeStart(i)
          \/ LifeOpen(i)
          \/ LifeTest(i)
          \/ LifeBody(i)
          \/ LifeReturn(i)

SpecLife == InitLife /\ [][NextLife]_vars

\* the calls of start() whose _run_blocking is in its capture loop
ActiveLoops == {i \in 1..MaxStarts : lpc[i] \in {"top", "body"}}

\* C20: at most one capture loop is active per service instance, under every
\* interleaving of start() and stop().
C20_OneLoop == Cardinality(ActiveLoops) <= 1

====
